---- MODULE Spec2Model ----
(***************************************************************************)
(* The host instance of the four-seat tile-rummy game of src/App.tsx: the  *)
(* canonical GameState, the local handlers (START GAME, PLAY SET, add to   *)
(* set, DRAW, END TURN), the ingestion of client messages, the automated   *)
(* turn, the per-seat broadcast and the host side of the roster.           *)
(*                                                                         *)
(* The rule engine (utils/gameLogic: createDeck, isValidSet,               *)
(* calculateSetPoints, sortTileSet, aiPlayTurn) is imported by App.tsx but *)
(* its file is not among the sources; it is modelled from spec.md 4.1-4.3. *)
(***************************************************************************)
EXTENDS Integers, Sequences, FiniteSets, TLC

\* ------------------------------------------------------------------ bounds
\* Game steps (after START GAME) explored.
MaxSteps == 4
\* Longest selection of hand tiles a seat submits in one commit.
MaxSelect == 7
\* Roster events explored: invitations created and 'connected' reports received.
MaxRoster == 2
\* Roster events explored while the host stays in the lobby.
MaxLobby == 6
\* Game steps explored while the instance plays alone against the automated seats.
MaxSoloSteps == 11
MaxFairSteps == 9
PoolLeft == 2
\* Connections (data channel or peer connection) reported lost in one behaviour
MaxFaults == 1

\* ------------------------------------------------------- program constants
INITIAL_HAND_SIZE == 14
\* winner: number | null
null == -1
NumSeats == 4
MaxNumber == 13
MeldThreshold == 30
MinSetSize == 3
MaxGroupSize == 4

\* ------------------------------------------------------------ sequences
Range(s) == {s[i] : i \in DOMAIN s}


\* A filter that drops the last position whatever drop is
DropLast(s, drop) == SubSeq(s, 1, Len(s) - 1)

\* aiHands.filter((_, i) => i !== drop): the sequence without position drop
RECURSIVE DropIdx(_, _)
DropIdx(s, drop) ==
  IF s = <<>> THEN <<>>
  ELSE IF drop = 1 THEN Tail(s)
       ELSE <<Head(s)>> \o DropIdx(Tail(s), drop - 1)

RECURSIVE SumSeq(_)
SumSeq(s) == IF s = <<>> THEN 0 ELSE Head(s) + SumSeq(Tail(s))

RECURSIVE Flatten(_)
Flatten(ss) == IF ss = <<>> THEN <<>> ELSE Head(ss) \o Flatten(Tail(ss))

Min(S) == CHOOSE x \in S : \A y \in S : x <= y
Max(S) == CHOOSE x \in S : \A y \in S : x >= y

\* ---------------------------------------------------------------- tiles
Colors == <<"Red", "Blue", "Orange", "Black">>
ColorRank(c) == CHOOSE i \in 1..5 : (<<"Red", "Blue", "Orange", "Black", "Joker">>)[i] = c

\* A Tile of types.ts; id stands for the unique string id.
MkTile(ci, n, copy) ==
  [id |-> copy * 52 + (ci - 1) * MaxNumber + n, number |-> n,
   color |-> Colors[ci], isJoker |-> FALSE]
MkJoker(copy) ==
  [id |-> 105 + copy, number |-> 0, color |-> "Joker", isJoker |-> TRUE]

\* The 106 tiles in construction order: 2 copies of 4 colors x 13 numbers, 2 Jokers.
OrderedDeck ==
  [i \in 1..104 |->
     MkTile((((i - 1) % 52) \div MaxNumber) + 1, ((i - 1) % MaxNumber) + 1, (i - 1) \div 52)]
  \o <<MkJoker(0), MkJoker(1)>>

DeckSize == Len(OrderedDeck)

\* ------------------------------------------------------ validator, scorer
isRun(tiles) ==
  LET nj == SelectSeq(tiles, LAMBDA t : ~t.isJoker)
      nums == {t.number : t \in Range(nj)}
  IN /\ nj # <<>>
     /\ \A t \in Range(nj) : t.color = nj[1].color
     /\ Cardinality(nums) = Len(nj)
     /\ Max(nums) - Min(nums) + 1 <= Len(tiles)
     /\ Len(tiles) <= MaxNumber

isGroup(tiles) ==
  LET nj == SelectSeq(tiles, LAMBDA t : ~t.isJoker)
  IN /\ nj # <<>>
     /\ Len(tiles) <= MaxGroupSize
     /\ \A t \in Range(nj) : t.number = nj[1].number
     /\ Cardinality({t.color : t \in Range(nj)}) = Len(nj)

isValidSet(tiles) ==
  /\ Len(tiles) >= MinSetSize
  /\ Len(tiles) <= MaxNumber
  /\ (isRun(tiles) \/ isGroup(tiles))

\* Jokers count at the value they substitute: the group's number, or the
\* numbers that complete the run (extended upward while it fits below 13).
calculateSetPoints(tiles) ==
  LET nj == SelectSeq(tiles, LAMBDA t : ~t.isJoker)
      n == Len(tiles)
  IN IF nj # <<>> /\ n >= MinSetSize /\ isGroup(tiles) THEN nj[1].number * n
     ELSE IF nj # <<>> /\ isRun(tiles)
          THEN LET lo == Min({t.number : t \in Range(nj)})
                   start == IF lo <= MaxNumber + 1 - n THEN lo ELSE MaxNumber + 1 - n
               IN n * start + (n * (n - 1)) \div 2
          ELSE SumSeq([i \in 1..Len(tiles) |-> tiles[i].number])

\* (number, color) ascending, stable
TileBefore(a, b) ==
  \/ a.number < b.number
  \/ a.number = b.number /\ ColorRank(a.color) < ColorRank(b.color)

RECURSIVE InsertSorted(_, _)
InsertSorted(t, s) ==
  IF s = <<>> THEN <<t>>
  ELSE IF TileBefore(t, Head(s)) THEN <<t>> \o s
       ELSE <<Head(s)>> \o InsertSorted(t, Tail(s))

RECURSIVE sortTileSet(_)
sortTileSet(tiles) ==
  IF tiles = <<>> THEN <<>>
  ELSE InsertSorted(tiles[Len(tiles)], sortTileSet(SubSeq(tiles, 1, Len(tiles) - 1)))

\* ------------------------------------------------------------------ deck
\* The hands the explored shuffle deals (copy 0 unless said otherwise).
\* Seat 0: Red 7..13 and Blue 1..7, two runs that empty the hand.
HandWin ==
  [i \in 1..7 |-> MkTile(1, 6 + i, 0)] \o [i \in 1..7 |-> MkTile(2, i, 0)]
\* Seat 1: Orange 7..13, Black 1..6 and Red 6, which extends a Red run from 7.
HandRuns ==
  [i \in 1..7 |-> MkTile(3, 6 + i, 0)] \o [i \in 1..6 |-> MkTile(4, i, 0)]
  \o <<MkTile(1, 6, 0)>>
\* Seat 2: no three tiles form a set (copy 1: Red odd, Blue even, Orange 1).
HandNone ==
  [i \in 1..7 |-> MkTile(1, 2 * i - 1, 1)] \o [i \in 1..6 |-> MkTile(2, 2 * i, 1)]
  \o <<MkTile(3, 1, 1)>>
\* Seat 3: no three tiles form a set (copy 1: Black odd, Orange 2,4,6,8, Blue 1,5,9).
HandNoneToo ==
  [i \in 1..7 |-> MkTile(4, 2 * i - 1, 1)] \o [i \in 1..4 |-> MkTile(3, 2 * i, 1)]
  \o <<MkTile(2, 1, 1), MkTile(2, 5, 1), MkTile(2, 9, 1)>>

\* A deck order: the given first 56 tiles, then the other tiles in construction order.
DeckFrom(front) ==
  front \o SelectSeq(OrderedDeck, LAMBDA t : t \notin Range(front))

\* createDeck(): a shuffled deck. The explored result of the shuffle.
Shuffles == {DeckFrom(HandWin \o HandRuns \o HandNone \o HandNoneToo)}

createDeck == Shuffles

\* ----------------------------------------------------------------- state
VARIABLES
  gameState,    \* the host's GameState (useState of App)
  conns,        \* the P2PConnection objects the host created, in creation order
  connections,  \* connections.current: seat index -> position in conns
  sent,         \* the UPDATE_STATE messages the last step handed to open channels
  lastOp,       \* the handler that ran last and how it ended
  steps,        \* game steps counted against MaxSteps
  drawEndRun,   \* applied Draw/EndTurn steps in a row since seat 0 was to move, or null
  aiTimer       \* the automated-turn effect as last run: its dependencies then, the
                \* seat of the timer it left pending (followed where the timer is a
                \* step of its own, NoTimer elsewhere)

vars == <<gameState, conns, connections, sent, lastOp, steps, drawEndRun, aiTimer>>

Seats == 0..(NumSeats - 1)

getInitialGameState(role) ==
  [board |-> <<>>, playerHand |-> <<>>, aiHands |-> <<<<>>, <<>>, <<>>>>, pool |-> <<>>,
   currentPlayerIndex |-> 0, hasMeld |-> [s \in Seats |-> FALSE], winner |-> null,
   message |-> IF role = "client" THEN [text |-> "Waiting for connection...", player |-> null]
               ELSE [text |-> "Welcome!", player |-> null],
   isMultiplayer |-> role # "single", playerRole |-> role, myPlayerIndex |-> 0,
   gameStarted |-> FALSE, humanPlayers |-> <<0>>]

isMyTurn ==
  /\ gameState.currentPlayerIndex = gameState.myPlayerIndex
  /\ gameState.gameStarted
  /\ gameState.winner = null

isHost == gameState.playerRole = "host" \/ gameState.playerRole = "single"

getTurnMessage(state) ==
  IF state.winner # null THEN [text |-> "Wins", player |-> state.winner]
  ELSE IF state.currentPlayerIndex = state.myPlayerIndex
       THEN [text |-> "Your Turn", player |-> null]
       ELSE [text |-> "Turn", player |-> state.currentPlayerIndex]

\* P2PConnection.send: the message leaves only on an open data channel
CanSend(index) == index \in DOMAIN connections /\ conns[connections[index]].dc = "open"

clientView(state, index) ==
  [state EXCEPT !.message = getTurnMessage(state),
                !.playerHand = state.aiHands[index],
                !.aiHands = <<state.playerHand>> \o DropIdx(state.aiHands, index),
                !.myPlayerIndex = index,
                !.playerRole = "client"]

NoneSent == [i \in {} |-> 0]

\* broadcastState(state): the UPDATE_STATE payload handed to each open channel
broadcastState(state) ==
  IF state.playerRole # "host" THEN NoneSent
  ELSE [index \in {i \in DOMAIN connections : CanSend(i)} |-> clientView(state, index)]

\* The hand the host stores for a seat
HandOf(state, seat) == IF seat = 0 THEN state.playerHand ELSE state.aiHands[seat]

\* from: the seat a handled message names as its sender (fromIndex); the seat
\* itself for a step that handles no message
Op(name, seat, result, note) ==
  [op |-> name, seat |-> seat, result |-> result, note |-> note, from |-> seat]

NoTimer == [deps |-> <<>>, seat |-> null]

Init ==
  /\ gameState = getInitialGameState("single")
  /\ conns = <<>>
  /\ connections = NoneSent
  /\ sent = NoneSent
  /\ lastOp = Op("init", null, "none", "")
  /\ steps = 0
  /\ drawEndRun = null
  /\ aiTimer = NoTimer

\* A deal that hands out one tile too few
dealtHandShort(deck, i) ==
  SubSeq(deck, i * INITIAL_HAND_SIZE + 1, (i + 1) * INITIAL_HAND_SIZE - 1)

\* deck.splice(0, INITIAL_HAND_SIZE), the (i+1)-th time it is evaluated on deck
dealtHand(deck, i) ==
  SubSeq(deck, i * INITIAL_HAND_SIZE + 1, (i + 1) * INITIAL_HAND_SIZE)

\* START GAME (shown while the game has not started, to a host or single player)
handleStartGame ==
  /\ ~gameState.gameStarted
  /\ isHost
  /\ \E deck \in createDeck :
       LET newState ==
             [gameState EXCEPT
                !.gameStarted = TRUE,
                !.pool = SubSeq(deck, 4 * INITIAL_HAND_SIZE + 1, Len(deck)),
                !.playerHand = dealtHand(deck, 0),
                !.aiHands = [i \in 1..3 |-> dealtHand(deck, i)],
                !.currentPlayerIndex = 0,
                !.board = <<>>,
                !.hasMeld = [s \in Seats |-> FALSE],
                !.winner = null]
           ns == [newState EXCEPT !.message = getTurnMessage(newState)]
       IN /\ gameState' = ns
          /\ sent' = broadcastState(ns)
  /\ lastOp' = Op("StartGame", 0, "applied", "")
  /\ drawEndRun' = 0
  /\ UNCHANGED <<conns, connections, steps, aiTimer>>

\* ------------------------------------------------------- local handlers
\* selectedInHand: the ids of the leading or of the trailing tiles of the hand as
\* displayed, minLen to MaxSelect of them
Selections(hand, minLen) ==
  LET lens == {n \in minLen..MaxSelect : n <= Len(hand)}
  IN {{hand[k].id : k \in 1..n} : n \in lens}
     \cup {{hand[k].id : k \in (Len(hand) - n + 1)..Len(hand)} : n \in lens}

\* A turn that skips a seat
nextSeatSkips(i) == (i + 2) % NumSeats

\* (currentPlayerIndex + 1) % 4
nextSeat(i) == (i + 1) % NumSeats

\* The run of Draw/EndTurn steps after a step of another kind
RunAfter(ns) == IF ns.currentPlayerIndex = 0 /\ ns.winner = null THEN 0 ELSE null
RunPlusOne == IF drawEndRun = null THEN null ELSE drawEndRun + 1

Reject(name, seat, note) ==
  /\ lastOp' = Op(name, seat, "rejected", note)
  /\ UNCHANGED <<gameState, drawEndRun, steps>>
  /\ sent' = NoneSent

Msg(type, payload, fromIndex) == [type |-> type, payload |-> payload, fromIndex |-> fromIndex]

\* connections.current.get(0)?.send(msg) on a client
sendToHost(msg) == IF CanSend(0) THEN [i \in {0} |-> msg] ELSE NoneSent

\* The payload of the ACTION_MOVE a client sends for the state ns it built
movePayload(ns) == [board |-> ns.board, hand |-> ns.playerHand, hasMeld |-> TRUE]

\* What a click handler does with the state it built: the state is stored, and
\* a client sends the intent of the given type to the host while a host or
\* single-player instance broadcasts the state
Commit(ns0, type) ==
  LET ns == [ns0 EXCEPT !.message = getTurnMessage(ns0)]
      payload == IF type = "ACTION_MOVE" THEN movePayload(ns) ELSE null
  IN /\ gameState' = ns
     /\ sent' = IF gameState.playerRole = "client"
              THEN sendToHost(Msg(type, payload, gameState.myPlayerIndex))
              ELSE broadcastState(ns)
     /\ steps' = steps + 1

\* A set scoring 31 passes the gate of a seat that has melded only
FailsMeldGateInverted(hasMeld, pts) == hasMeld /\ pts < MeldThreshold

\* !gameState.hasMeld[gameState.myPlayerIndex] && pts < 30
FailsMeldGate(hasMeld, pts) == ~hasMeld /\ pts < MeldThreshold

\* PLAY SET onClick (disabled unless isMyTurn and at least 3 tiles are selected)
PlaySet(selectedInHand) ==
  LET my == gameState.myPlayerIndex
      selectedTiles == SelectSeq(gameState.playerHand, LAMBDA t : t.id \in selectedInHand)
      pts == calculateSetPoints(selectedTiles)
      newHand == SelectSeq(gameState.playerHand, LAMBDA t : t.id \notin selectedInHand)
      ns == [gameState EXCEPT
               !.board = Append(gameState.board, sortTileSet(selectedTiles)),
               !.playerHand = newHand,
               !.hasMeld = [i \in Seats |-> IF i = my THEN TRUE ELSE gameState.hasMeld[i]],
               !.winner = IF newHand = <<>> THEN my ELSE gameState.winner]
  IN IF Len(selectedTiles) < MinSetSize \/ ~isValidSet(selectedTiles)
     THEN Reject("PlaySet", my, "invalid")
     ELSE IF FailsMeldGate(gameState.hasMeld[my], pts)
          THEN Reject("PlaySet", my, "meld")
          ELSE /\ Commit(ns, "ACTION_MOVE")
               /\ lastOp' = Op("PlaySet", my, "applied", "new")
               /\ drawEndRun' = RunAfter(ns)

PlaySetClick ==
  /\ gameState.gameStarted /\ isMyTurn /\ steps < MaxSteps
  /\ \E sel \in Selections(gameState.playerHand, MinSetSize) : PlaySet(sel)
  /\ UNCHANGED <<conns, connections, aiTimer>>

\* handleAddToSet(setIdx): a click on set setIdx of the board
handleAddToSet(setIdx, selectedInHand) ==
  LET my == gameState.myPlayerIndex
      tilesToAdd == SelectSeq(gameState.playerHand, LAMBDA t : t.id \in selectedInHand)
      targetSet == gameState.board[setIdx] \o tilesToAdd
      newHand == SelectSeq(gameState.playerHand, LAMBDA t : t.id \notin selectedInHand)
      ns == [gameState EXCEPT
               !.board = [gameState.board EXCEPT ![setIdx] = sortTileSet(targetSet)],
               !.playerHand = newHand,
               !.winner = IF newHand = <<>> THEN my ELSE gameState.winner]
  IN IF ~isMyTurn \/ selectedInHand = {}
     THEN Reject("AddToSet", my, "turn")
     ELSE IF ~gameState.hasMeld[my]
          THEN Reject("AddToSet", my, "meld")
          ELSE IF ~isValidSet(targetSet)
               THEN Reject("AddToSet", my, "invalid")
               ELSE /\ Commit(ns, "ACTION_MOVE")
                    /\ lastOp' = Op("AddToSet", my, "applied", "extend")
                    /\ drawEndRun' = RunAfter(ns)

AddToSetClick ==
  /\ steps < MaxSteps
  /\ \E setIdx \in 1..Len(gameState.board) :
       \E sel \in (IF isMyTurn THEN Selections(gameState.playerHand, 1) ELSE {}) \cup {{}} :
         handleAddToSet(setIdx, sel)
  /\ UNCHANGED <<conns, connections, aiTimer>>

\* A draw that takes the first tile of the pool
localDrawFromHead(prev) ==
  [prev EXCEPT
     !.pool = Tail(prev.pool),
     !.playerHand = Append(prev.playerHand, Head(prev.pool)),
     !.currentPlayerIndex = nextSeat(prev.currentPlayerIndex)]

\* The state the updater of DRAW onClick builds from prev (pool non-empty)
localDraw(prev) ==
  LET pool == SubSeq(prev.pool, 1, Len(prev.pool) - 1)
      drawn == prev.pool[Len(prev.pool)]
  IN [prev EXCEPT
        !.pool = pool,
        !.playerHand = Append(prev.playerHand, drawn),
        !.currentPlayerIndex = nextSeat(prev.currentPlayerIndex)]

\* DRAW onClick (disabled unless isMyTurn and the pool is non-empty)
Draw ==
  LET my == gameState.myPlayerIndex
      ns == localDraw(gameState)
  IN IF gameState.pool = <<>>
     THEN Reject("Draw", my, "pool")
     ELSE /\ Commit(ns, "ACTION_DRAW")
          /\ lastOp' = Op("Draw", my, "applied", "")
          /\ drawEndRun' = RunPlusOne

DrawClick ==
  /\ gameState.gameStarted /\ isMyTurn /\ gameState.pool # <<>> /\ steps < MaxSteps
  /\ Draw
  /\ UNCHANGED <<conns, connections, aiTimer>>

\* END TURN onClick (disabled unless isMyTurn)
EndTurn ==
  LET ns == [gameState EXCEPT !.currentPlayerIndex = nextSeat(gameState.currentPlayerIndex)]
  IN /\ Commit(ns, "ACTION_END_TURN")
     /\ lastOp' = Op("EndTurn", gameState.myPlayerIndex, "applied", "")
     /\ drawEndRun' = RunPlusOne

EndTurnClick ==
  /\ gameState.gameStarted /\ isMyTurn /\ steps < MaxSteps
  /\ EndTurn
  /\ UNCHANGED <<conns, connections, aiTimer>>

\* ------------------------------------------------------ automated player
\* The tiles of a set of ids, in hand order
Pick(hand, ids) == SelectSeq(hand, LAMBDA t : t.id \in ids)
Without(hand, ids) == SelectSeq(hand, LAMBDA t : t.id \notin ids)

\* The subsets of the hand that pass isValidSet. A valid set's non-Jokers share a
\* color or share a number, so it is enough to look inside those classes.
LegalSubsets(hand) ==
  LET jokers == {t.id : t \in {u \in Range(hand) : u.isJoker}}
      byColor == {{t.id : t \in {u \in Range(hand) : u.color = Colors[ci]}} : ci \in 1..4}
      byNumber == {{t.id : t \in {u \in Range(hand) : u.number = n}} : n \in 1..MaxNumber}
      classes == {c \cup jokers : c \in byColor \cup byNumber}
  IN UNION {{ids \in SUBSET c : Cardinality(ids) >= MinSetSize /\ isValidSet(Pick(hand, ids))} :
             c \in classes}

\* aiPlayTurn(hand, board, hasMeld): the results the procedure of spec.md 4.3 allows.
\* A largest legal subset (scoring 30 or more before the initial meld); once
\* melded, failing that, one hand tile added to a board set; otherwise no move.
aiPlayTurn(hand, board, hasMeld) ==
  LET accepted == {ids \in LegalSubsets(hand) :
                     hasMeld \/ calculateSetPoints(Pick(hand, ids)) >= MeldThreshold}
      largest == {ids \in accepted : \A o \in accepted : Cardinality(o) <= Cardinality(ids)}
      extensions == IF hasMeld
                    THEN {e \in (1..Len(board)) \X (1..Len(hand)) :
                            isValidSet(Append(board[e[1]], hand[e[2]]))}
                    ELSE {}
  IN IF largest # {}
     THEN {[newHand |-> Without(hand, ids),
            newBoard |-> Append(board, sortTileSet(Pick(hand, ids))),
            madeMove |-> TRUE] : ids \in largest}
     ELSE IF extensions # {}
          THEN {[newHand |-> Without(hand, {hand[e[2]].id}),
                 newBoard |-> [board EXCEPT ![e[1]] = sortTileSet(Append(board[e[1]], hand[e[2]]))],
                 madeMove |-> TRUE] : e \in extensions}
          ELSE {[newHand |-> hand, newBoard |-> board, madeMove |-> FALSE]}

\* An automated draw that takes the tile from the head of the pool
aiDrawFromHead(prev, aiIdx) ==
  IF prev.pool # <<>>
  THEN [prev EXCEPT !.pool = Tail(prev.pool),
                    !.aiHands[aiIdx] = Append(prev.aiHands[aiIdx], Head(prev.pool)),
                    !.currentPlayerIndex = nextSeat(prev.currentPlayerIndex)]
  ELSE [prev EXCEPT !.currentPlayerIndex = nextSeat(prev.currentPlayerIndex)]

\* The branch of the timer callback taken when aiPlayTurn made no move
aiDraw(prev, aiIdx) ==
  IF prev.pool # <<>>
  THEN [prev EXCEPT !.pool = SubSeq(prev.pool, 1, Len(prev.pool) - 1),
                    !.aiHands[aiIdx] = Append(prev.aiHands[aiIdx], prev.pool[Len(prev.pool)]),
                    !.currentPlayerIndex = nextSeat(prev.currentPlayerIndex)]
  ELSE [prev EXCEPT !.currentPlayerIndex = nextSeat(prev.currentPlayerIndex)]

\* An updater that writes the result into the hand of the seat after aiIdx
aiUpdaterNextHand(prev, aiIdx, r) ==
  LET cur == prev.currentPlayerIndex
      other == IF aiIdx = 3 THEN 1 ELSE aiIdx + 1
      moved == [prev EXCEPT
                  !.board = r.newBoard,
                  !.aiHands[other] = r.newHand,
                  !.hasMeld[cur] = TRUE,
                  !.winner = IF r.newHand = <<>> THEN cur ELSE prev.winner,
                  !.currentPlayerIndex = IF r.newHand = <<>> THEN cur ELSE nextSeat(cur)]
      nextState0 == IF r.madeMove THEN moved ELSE aiDraw(prev, other)
  IN [nextState0 EXCEPT !.message = getTurnMessage(nextState0)]

\* The state the updater of the timer callback builds from prev when aiPlayTurn
\* returned r; aiIdx is the seat whose hand the callback's closure indexes
aiUpdater(prev, aiIdx, r) ==
  LET cur == prev.currentPlayerIndex
      moved == [prev EXCEPT
                  !.board = r.newBoard,
                  !.aiHands[aiIdx] = r.newHand,
                  !.hasMeld[cur] = TRUE,
                  !.winner = IF r.newHand = <<>> THEN cur ELSE prev.winner,
                  !.currentPlayerIndex = IF r.newHand = <<>> THEN cur ELSE nextSeat(cur)]
      nextState0 == IF r.madeMove THEN moved ELSE aiDraw(prev, aiIdx)
  IN [nextState0 EXCEPT !.message = getTurnMessage(nextState0)]

\* The timer callback of the automated-turn effect
AITurn ==
  /\ gameState.gameStarted /\ gameState.winner = null
  /\ gameState.currentPlayerIndex # 0
  /\ gameState.playerRole \in {"single", "host"}
  /\ gameState.currentPlayerIndex \notin Range(gameState.humanPlayers)
  /\ steps < MaxSteps
  /\ LET cur == gameState.currentPlayerIndex
         aiIdx == cur
     IN \E r \in aiPlayTurn(gameState.aiHands[aiIdx], gameState.board, gameState.hasMeld[cur]) :
          LET nextState == aiUpdater(gameState, aiIdx, r)
          IN /\ gameState' = nextState
             /\ sent' = IF gameState.playerRole = "host" THEN broadcastState(nextState) ELSE NoneSent
             /\ lastOp' = Op("AITurn", cur, "applied", IF r.madeMove THEN "move" ELSE "draw")
             /\ drawEndRun' = IF r.madeMove THEN RunAfter(nextState) ELSE RunPlusOne
  /\ steps' = steps + 1
  /\ UNCHANGED <<conns, connections, aiTimer>>

\* ------------------------------------------------------- client messages
\* The ACTION_MOVE payload the client code of seat k builds for a new set
\* (PLAY SET onClick on a client whose view is the projection of state)
MoveNewSet(state, k, ids) ==
  [board |-> Append(state.board, sortTileSet(Pick(HandOf(state, k), ids))),
   hand |-> Without(HandOf(state, k), ids),
   hasMeld |-> TRUE]

\* The ACTION_MOVE payload the client code builds for an extension (handleAddToSet)
MoveExtend(state, k, setIdx, ids) ==
  [board |-> [state.board EXCEPT
                ![setIdx] = sortTileSet(state.board[setIdx] \o Pick(HandOf(state, k), ids))],
   hand |-> Without(HandOf(state, k), ids),
   hasMeld |-> TRUE]

\* Payloads the client code sends: it checks the move against its own view first
HonestMoves(state, k) ==
  LET hand == HandOf(state, k)
  IN {MoveNewSet(state, k, ids) :
        ids \in {sel \in Selections(hand, MinSetSize) :
                   /\ isValidSet(Pick(hand, sel))
                   /\ (state.hasMeld[k] \/ calculateSetPoints(Pick(hand, sel)) >= MeldThreshold)}}
     \cup
     {MoveExtend(state, k, e[1], e[2]) :
        e \in {x \in (1..Len(state.board)) \X Selections(hand, 1) :
                 /\ state.hasMeld[k]
                 /\ Cardinality(x[2]) = 1
                 /\ isValidSet(state.board[x[1]] \o Pick(hand, x[2]))}}

\* Payloads the client code never builds but a peer can put on the channel:
\* an emptied hand with nothing played, the first two and the last hand tile
\* laid down unchecked, and an extension by a seat whatever its hasMeld.
ForgedMoves(state, k) ==
  LET hand == HandOf(state, k)
      odd == IF Len(hand) < MinSetSize THEN {}
             ELSE {hand[1].id, hand[2].id, hand[Len(hand)].id}
  IN {[board |-> state.board, hand |-> <<>>, hasMeld |-> FALSE]}
     \cup {[board |-> Append(state.board, Pick(hand, odd)),
            hand |-> Without(hand, odd), hasMeld |-> TRUE]}
     \cup {MoveExtend(state, k, e[1], e[2]) :
             e \in {x \in (1..Len(state.board)) \X Selections(hand, 1) :
                      /\ Cardinality(x[2]) = 1
                      /\ isValidSet(state.board[x[1]] \o Pick(hand, x[2]))}}

MovePayloads(state, k) == HonestMoves(state, k) \cup ForgedMoves(state, k)

\* How payload changes the board: "new" (one set appended), "extend" (one set
\* replaced by a longer one), "none" (board untouched) or "other"
MoveKind(state, payload) ==
  IF payload.board = state.board THEN "none"
  ELSE IF /\ Len(payload.board) = Len(state.board) + 1
          /\ SubSeq(payload.board, 1, Len(state.board)) = state.board THEN "new"
  ELSE IF /\ Len(payload.board) = Len(state.board)
          /\ \E i \in 1..Len(state.board) :
               /\ \A j \in 1..Len(state.board) : j # i => payload.board[j] = state.board[j]
               /\ Len(payload.board[i]) > Len(state.board[i])
               /\ Range(state.board[i]) \subseteq Range(payload.board[i]) THEN "extend"
  ELSE "other"

Intents == {"ACTION_DRAW", "ACTION_MOVE", "ACTION_END_TURN"}

\* The seat check made for ACTION_MOVE and ACTION_END_TURN but not for ACTION_DRAW
IsStaleExceptDraw(state, connIdx, type) ==
  type \in Intents \ {"ACTION_DRAW"} /\ state.currentPlayerIndex # connIdx

\* if (newState.currentPlayerIndex !== connIdx) return prev; in each case of the switch
IsStale(state, connIdx, type) ==
  type \in Intents /\ state.currentPlayerIndex # connIdx

\* case 'ACTION_DRAW' of handleClientMessage, past the seat check
remoteDraw(prev, connIdx) ==
  IF prev.pool = <<>> THEN prev
  ELSE [prev EXCEPT
          !.pool = SubSeq(prev.pool, 1, Len(prev.pool) - 1),
          !.aiHands[connIdx] = Append(prev.aiHands[connIdx], prev.pool[Len(prev.pool)]),
          !.currentPlayerIndex = nextSeat(connIdx)]

\* An ACTION_MOVE that also passes the turn on
remoteMoveEndsTurn(prev, connIdx, payload) ==
  [prev EXCEPT
     !.board = payload.board,
     !.aiHands[connIdx] = payload.hand,
     !.hasMeld[connIdx] = payload.hasMeld,
     !.winner = IF payload.hand = <<>> THEN connIdx ELSE prev.winner,
     !.currentPlayerIndex = nextSeat(connIdx)]

\* case 'ACTION_MOVE' of handleClientMessage, past the seat check
remoteMove(prev, connIdx, payload) ==
  [prev EXCEPT
     !.board = payload.board,
     !.aiHands[connIdx] = payload.hand,
     !.hasMeld[connIdx] = payload.hasMeld,
     !.winner = IF payload.hand = <<>> THEN connIdx ELSE prev.winner]

\* An ACTION_END_TURN that also takes back the seat's initial meld
remoteEndTurnResetsMeld(prev, connIdx) ==
  [prev EXCEPT !.currentPlayerIndex = nextSeat(connIdx), !.hasMeld[connIdx] = FALSE]

\* case 'ACTION_END_TURN' of handleClientMessage, past the seat check
remoteEndTurn(prev, connIdx) ==
  [prev EXCEPT !.currentPlayerIndex = nextSeat(connIdx)]

\* handleClientMessage(connIdx, msg)
handleClientMessage(connIdx, msg) ==
  LET prev == gameState
      cur == prev.currentPlayerIndex
      drawn == remoteDraw(prev, connIdx)
      moved == remoteMove(prev, connIdx, msg.payload)
      ended == remoteEndTurn(prev, connIdx)
      newState0 == IF msg.type = "ACTION_DRAW" THEN drawn
                   ELSE IF msg.type = "ACTION_MOVE" THEN moved
                   ELSE IF msg.type = "ACTION_END_TURN" THEN ended
                   ELSE prev
      newState == [newState0 EXCEPT !.message = getTurnMessage(newState0)]
      changed == newState0 # prev
  IN IF prev.playerRole # "host" \/ IsStale(prev, connIdx, msg.type)
     THEN /\ UNCHANGED <<gameState, drawEndRun, steps>>
          /\ sent' = NoneSent
          /\ lastOp' = [Op(msg.type, connIdx, "dropped", "") EXCEPT !.from = msg.fromIndex]
     ELSE /\ gameState' = newState
          /\ sent' = broadcastState(newState)
          /\ steps' = IF changed THEN steps + 1 ELSE steps
          /\ lastOp' = [Op(msg.type, connIdx, "applied",
                           IF msg.type = "ACTION_MOVE" THEN MoveKind(prev, msg.payload) ELSE "")
                          EXCEPT !.from = msg.fromIndex]
          /\ drawEndRun' = IF ~changed THEN drawEndRun
                           ELSE IF msg.type = "ACTION_MOVE" THEN RunAfter(newState)
                           ELSE RunPlusOne

\* The message types a peer can put on the channel without a payload
PlainTypes == {"ACTION_DRAW", "ACTION_END_TURN"}

\* A host that takes the acting seat from the message
seatOfMessage(index, msg) == msg.fromIndex

\* conn.onMessage = (msg) => handleClientMessage(index, msg): the seat passed on
\* is the index the connection was created for
seatOfConnection(index, msg) == index

\* The fromIndex values the messages of seat k carry: k as the client code
\* writes it, or any seat when anyFrom
FromIndexes(k, anyFrom) == IF anyFrom THEN Seats ELSE {k}

\* dc.onmessage of a connection of the host
ClientMessageFrom(anyFrom) ==
  /\ steps < MaxSteps
  /\ \E c \in 1..Len(conns) :
       /\ conns[c].dc = "open"
       /\ LET k == conns[c].index
          IN \E from \in FromIndexes(k, anyFrom) :
               \/ \E type \in PlainTypes :
                    handleClientMessage(seatOfConnection(k, Msg(type, null, from)),
                                        Msg(type, null, from))
               \/ \E payload \in MovePayloads(gameState, k) :
                    handleClientMessage(seatOfConnection(k, Msg("ACTION_MOVE", payload, from)),
                                        Msg("ACTION_MOVE", payload, from))
  /\ UNCHANGED <<conns, connections, aiTimer>>

\* The messages of peers that run the client code
ClientMessage == ClientMessageFrom(FALSE)

\* The messages of peers that write any seat into fromIndex
ForgedFromMessage == ClientMessageFrom(TRUE)

\* ---------------------------------------------------------------- roster
\* Invitations created plus 'connected' reports received so far
RosterEvents ==
  Len(conns) + Cardinality({c \in 1..Len(conns) : conns[c].pc = "connected"})
             + Cardinality({c \in 1..Len(conns) : conns[c].dc = "open"})

\* Roster events are explored up to limit of them
RosterOpenWithin(limit) == RosterEvents < limit /\ steps < MaxSteps

RosterOpen == RosterOpenWithin(MaxRoster)

\* new P2PConnection followed by createOffer: no answer applied, nothing open,
\* no re-broadcast timer pending
NewConn(index) ==
  [index |-> index, pc |-> "new", dc |-> "connecting", answered |-> FALSE, timers |-> {}]

\* initHostConnection ("Create Invite Code")
initHostConnectionWithin(limit) ==
  /\ RosterOpenWithin(limit)
  /\ LET index == Len(gameState.humanPlayers)
     IN IF index >= NumSeats
        THEN /\ UNCHANGED <<gameState, conns, connections>>
             /\ lastOp' = Op("initHostConnection", index, "rejected", "full")
        ELSE /\ conns' = Append(conns, NewConn(index))
             /\ connections' = [i \in DOMAIN connections \cup {index} |->
                                  IF i = index THEN Len(conns) + 1 ELSE connections[i]]
             /\ gameState' = [gameState EXCEPT !.playerRole = "host", !.isMultiplayer = TRUE]
             /\ lastOp' = Op("initHostConnection", index, "applied", "")
  /\ sent' = NoneSent
  /\ UNCHANGED <<steps, drawEndRun, aiTimer>>

initHostConnection == initHostConnectionWithin(MaxRoster)

\* The answer can reach connection c: handleAnswer was called on it, or a click
\* on Confirm Connection would call it now (c is registered for seat
\* humanPlayers.length)
Answerable(c) ==
  \/ conns[c].answered
  \/ /\ Len(gameState.humanPlayers) \in DOMAIN connections
     /\ connections[Len(gameState.humanPlayers)] = c

\* conn.onConnectionStateChange('connected') of connection c, reported while
\* its field (pc or dc) takes value; the answer has been applied by then. The
\* re-broadcast timer it sets is followed where timed, left out otherwise.
onConnected(c, field, value, timed) ==
  LET index == conns[c].index
      next == [gameState EXCEPT
                 !.humanPlayers = Append(gameState.humanPlayers, index),
                 !.message = [text |-> "joined", player |-> index]]
  IN /\ gameState' = next
     /\ conns' = [conns EXCEPT
                    ![c] = [[@ EXCEPT ![field] = value] EXCEPT
                              !.answered = TRUE,
                              !.timers = IF timed THEN @ \cup {next} ELSE @]]
     /\ lastOp' = Op("connected", index, "applied", "")
     /\ sent' = NoneSent
     /\ UNCHANGED <<connections, steps, drawEndRun, aiTimer>>

\* pc.onconnectionstatechange reporting 'connected' (part_000 lines 24-27)
PcConnectedWithin(limit, timed) ==
  \E c \in 1..Len(conns) :
    /\ Answerable(c) /\ conns[c].pc = "new" /\ RosterOpenWithin(limit)
    /\ onConnected(c, "pc", "connected", timed)

PcConnected == PcConnectedWithin(MaxRoster, FALSE)

\* dc.onopen, which reports 'connected' as well (part_000 lines 105-108)
DcOpenWithin(limit, timed) ==
  \E c \in 1..Len(conns) :
    /\ Answerable(c) /\ conns[c].dc = "connecting" /\ RosterOpenWithin(limit)
    /\ onConnected(c, "dc", "open", timed)

DcOpen == DcOpenWithin(MaxRoster, FALSE)

\* setTimeout(() => broadcastState(next), 1000) of a 'connected' report firing
RosterPush ==
  \E c \in 1..Len(conns) :
    \E next \in conns[c].timers :
      /\ sent' = broadcastState(next)
      /\ conns' = [conns EXCEPT ![c].timers = @ \ {next}]
      /\ lastOp' = Op("RosterPush", conns[c].index, "applied", "")
      /\ UNCHANGED <<gameState, connections, steps, drawEndRun, aiTimer>>

Next ==
  \/ handleStartGame
  \/ PlaySetClick
  \/ AddToSetClick
  \/ DrawClick
  \/ EndTurnClick
  \/ ClientMessage
  \/ AITurn
  \/ initHostConnection
  \/ PcConnected
  \/ DcOpen

Spec == Init /\ [][Next]_vars

\* ------------------------------------------------- two clients seated
\* The host after two invitations were created and both data channels opened
\* (initHostConnection, ConfirmConnection, DcOpen, RosterPush, twice): seats 1 and 2 are
\* clients, seat 3 is automated, the game has not started.
InitSeated ==
  /\ gameState = [getInitialGameState("single") EXCEPT
                    !.playerRole = "host", !.isMultiplayer = TRUE,
                    !.humanPlayers = <<0, 1, 2>>,
                    !.message = [text |-> "joined", player |-> 2]]
  /\ conns = [c \in 1..2 |-> [NewConn(c) EXCEPT !.answered = TRUE, !.dc = "open"]]
  /\ connections = [i \in {1, 2} |-> i]
  /\ sent = [i \in {1, 2} |-> clientView(gameState, i)]
  /\ lastOp = Op("RosterPush", 2, "applied", "")
  /\ steps = 0
  /\ drawEndRun = null
  /\ aiTimer = NoTimer

NextGame ==
  \/ handleStartGame
  \/ PlaySetClick
  \/ AddToSetClick
  \/ DrawClick
  \/ EndTurnClick
  \/ ClientMessage
  \/ AITurn

SpecSeated == InitSeated /\ [][NextGame]_vars

\* The same game with peers that write any seat into fromIndex; seat 0 draws or
\* ends its turn
NextForged ==
  \/ handleStartGame
  \/ DrawClick
  \/ EndTurnClick
  \/ ForgedFromMessage
  \/ AITurn

SpecForged == InitSeated /\ [][NextForged]_vars

\* ------------------------------------------------------------ the lobby
\* The host while peers are invited and connect, up to START GAME: MaxLobby
\* roster events, the answer applied by a click of its own, every
\* re-broadcast timer followed.
LobbyInvite == initHostConnectionWithin(MaxLobby)

\* Confirm Connection onClick: the pasted answer goes to the connection
\* registered for seat humanPlayers.length
ConfirmConnection ==
  /\ RosterOpenWithin(MaxLobby)
  /\ LET nextIdx == Len(gameState.humanPlayers)
     IN IF nextIdx \in DOMAIN connections
        THEN /\ conns' = [conns EXCEPT ![connections[nextIdx]].answered = TRUE]
             /\ lastOp' = Op("ConfirmConnection", nextIdx, "applied", "")
        ELSE /\ UNCHANGED conns
             /\ lastOp' = Op("ConfirmConnection", nextIdx, "rejected", "state")
  /\ sent' = NoneSent
  /\ UNCHANGED <<gameState, connections, steps, drawEndRun, aiTimer>>

LobbyPcConnected == PcConnectedWithin(MaxLobby, TRUE)

LobbyDcOpen == DcOpenWithin(MaxLobby, TRUE)

NextLobby ==
  \/ LobbyInvite
  \/ ConfirmConnection
  \/ LobbyPcConnected
  \/ LobbyDcOpen
  \/ RosterPush
  \/ handleStartGame

SpecLobby == Init /\ [][NextLobby]_vars

\* ------------------------------------------------- the pool runs out
\* The host's state after a draw by the seat to move: DRAW onClick for seat 0,
\* an ACTION_DRAW for a client seat
afterDraw(state) ==
  LET ns == IF state.currentPlayerIndex = 0 THEN localDraw(state)
            ELSE remoteDraw(state, state.currentPlayerIndex)
  IN [ns EXCEPT !.message = getTurnMessage(ns)]

RECURSIVE afterDraws(_, _)
afterDraws(state, n) ==
  IF n = 0 \/ state.pool = <<>> THEN state ELSE afterDraws(afterDraw(state), n - 1)

\* Draws made before the explored part of a game between four people
DrawsBefore == 48

\* Seats 1 to 3 are clients (three invitations, each data channel opened), the
\* game was started and every seat has drawn at each of its turns since:
\* DrawsBefore draws, two tiles are left in the pool, seat 0 is to move.
InitDrained ==
  /\ \E deck \in createDeck :
       LET seated == [getInitialGameState("single") EXCEPT
                        !.playerRole = "host", !.isMultiplayer = TRUE,
                        !.humanPlayers = <<0, 1, 2, 3>>]
           dealt == [seated EXCEPT
                       !.gameStarted = TRUE,
                       !.pool = SubSeq(deck, 4 * INITIAL_HAND_SIZE + 1, Len(deck)),
                       !.playerHand = dealtHand(deck, 0),
                       !.aiHands = [i \in 1..3 |-> dealtHand(deck, i)]]
       IN gameState = afterDraws(dealt, DrawsBefore)
  /\ conns = [c \in 1..3 |-> [NewConn(c) EXCEPT !.answered = TRUE, !.dc = "open"]]
  /\ connections = [i \in 1..3 |-> i]
  /\ sent = [i \in 1..3 |-> clientView(gameState, i)]
  /\ lastOp = Op("ACTION_DRAW", 3, "applied", "")
  /\ steps = 0
  /\ drawEndRun = DrawsBefore
  /\ aiTimer = NoTimer

NextDrained ==
  \/ PlaySetClick
  \/ AddToSetClick
  \/ DrawClick
  \/ EndTurnClick
  \/ ClientMessage

SpecDrained == InitDrained /\ [][NextDrained]_vars

\* ------------------------------------------------ single-player instance
\* The instance that never creates an invitation: seat 0 plays sets and ends
\* its turns, seats 1 to 3 are automated. MaxSoloSteps game steps are explored.
InitSolo ==
  /\ gameState = getInitialGameState("single")
  /\ conns = <<>>
  /\ connections = NoneSent
  /\ sent = NoneSent
  /\ lastOp = Op("init", null, "none", "")
  /\ steps = MaxSteps - MaxSoloSteps
  /\ drawEndRun = null
  /\ aiTimer = NoTimer

NextSolo ==
  \/ handleStartGame
  \/ PlaySetClick
  \/ EndTurnClick
  \/ AITurn

SpecSolo == InitSolo /\ [][NextSolo]_vars

\* ------------------------------------------------------- client instance
\* The seat of the client followed
ClientSeat == 1

\* The views the host pushes to seat ClientSeat from the moment that seat
\* joined until it is to move: after the roster change, after START GAME and
\* after the draw of seat 0
HostPushes ==
  LET deck == CHOOSE d \in createDeck : TRUE
      seated == [getInitialGameState("single") EXCEPT
                   !.playerRole = "host", !.isMultiplayer = TRUE,
                   !.humanPlayers = <<0, ClientSeat>>,
                   !.message = [text |-> "joined", player |-> ClientSeat]]
      dealt == [seated EXCEPT
                  !.gameStarted = TRUE,
                  !.pool = SubSeq(deck, 4 * INITIAL_HAND_SIZE + 1, Len(deck)),
                  !.playerHand = dealtHand(deck, 0),
                  !.aiHands = [i \in 1..3 |-> dealtHand(deck, i)]]
  IN <<clientView(seated, ClientSeat), clientView(dealt, ClientSeat),
       clientView(afterDraw(dealt), ClientSeat)>>

\* The instance after joinAsClient: the connection to the host is registered
\* under index 0, its channel is not open yet; incoming holds the views the
\* host pushes on this channel and that the channel has yet to hand over
InitClient ==
  /\ gameState = [getInitialGameState("single") EXCEPT
                    !.playerRole = "client", !.isMultiplayer = TRUE]
  /\ conns = <<[index |-> 0, pc |-> "new", dc |-> "connecting", answered |-> TRUE,
                timers |-> {}, incoming |-> HostPushes]>>
  /\ connections = [i \in {0} |-> 1]
  /\ sent = NoneSent
  /\ lastOp = Op("joinAsClient", 0, "applied", "")
  /\ steps = 0
  /\ drawEndRun = null
  /\ aiTimer = NoTimer

\* dc.onopen on the client: conn.onConnectionStateChange('connected') of joinAsClient
ClientDcOpen ==
  /\ conns[1].dc = "connecting"
  /\ conns' = [conns EXCEPT ![1].dc = "open"]
  /\ gameState' = [gameState EXCEPT !.message = [text |-> "Connected to Host!", player |-> null]]
  /\ lastOp' = Op("connected", 0, "applied", "")
  /\ sent' = NoneSent
  /\ UNCHANGED <<connections, steps, drawEndRun, aiTimer>>

\* dc.onclose on the client: only the connection status display changes
ClientDcClose ==
  /\ conns[1].dc = "open"
  /\ conns' = [conns EXCEPT ![1].dc = "closed"]
  /\ lastOp' = Op("disconnected", 0, "applied", "")
  /\ sent' = NoneSent
  /\ UNCHANGED <<gameState, connections, steps, drawEndRun, aiTimer>>

\* dc.onmessage on the client: conn.onMessage of joinAsClient replaces the state
\* by the payload of an UPDATE_STATE
ReceiveUpdate ==
  /\ conns[1].dc = "open" /\ conns[1].incoming # <<>>
  /\ gameState' = Head(conns[1].incoming)
  /\ conns' = [conns EXCEPT ![1].incoming = Tail(@)]
  /\ lastOp' = Op("UPDATE_STATE", 0, "applied", "")
  /\ sent' = NoneSent
  /\ UNCHANGED <<connections, steps, drawEndRun, aiTimer>>

\* The channel ({ordered: true, maxRetransmits: 3}) gives up on a message
LoseUpdate ==
  /\ conns[1].incoming # <<>>
  /\ conns' = [conns EXCEPT ![1].incoming = Tail(@)]
  /\ lastOp' = Op("UPDATE_STATE", 0, "lost", "")
  /\ sent' = NoneSent
  /\ UNCHANGED <<gameState, connections, steps, drawEndRun, aiTimer>>

NextClient ==
  \/ ClientDcOpen
  \/ ClientDcClose
  \/ ReceiveUpdate
  \/ LoseUpdate
  \/ PlaySetClick
  \/ AddToSetClick
  \/ DrawClick
  \/ EndTurnClick

SpecClient == InitClient /\ [][NextClient]_vars

\* -------------------------------------------- the automated-turn timer
\* A dependency list without currentPlayerIndex
effectDepsNoTurn(state) ==
  <<state.gameStarted, state.winner, state.playerRole, state.humanPlayers>>

\* The dependency list of the automated-turn effect (broadcastState, a
\* useCallback without dependencies, never changes)
effectDeps(state) ==
  <<state.currentPlayerIndex, state.gameStarted, state.winner, state.playerRole,
    state.humanPlayers>>

\* An effect that sets its timer whether or not the game has a winner
effectTimerAfterWin(state) ==
  IF ~state.gameStarted THEN null
  ELSE IF /\ state.currentPlayerIndex # 0
          /\ state.playerRole \in {"single", "host"}
          /\ state.currentPlayerIndex \notin Range(state.humanPlayers)
       THEN state.currentPlayerIndex
       ELSE null

\* The seat the effect sets its timer for when it runs on state (aiIdx + 1 of
\* the closure), or null when it returns before setTimeout
effectTimer(state) ==
  IF ~state.gameStarted \/ state.winner # null THEN null
  ELSE IF /\ state.currentPlayerIndex # 0
          /\ state.playerRole \in {"single", "host"}
          /\ state.currentPlayerIndex \notin Range(state.humanPlayers)
       THEN state.currentPlayerIndex
       ELSE null

\* The effect has run on the state as it is now
Settled == aiTimer.deps = effectDeps(gameState)

\* A dependency changed: the cleanup of the last run clears its timer, then the
\* effect runs on the new state. React does this after the render that follows
\* a state change and before the next event is handled.
RunEffect ==
  /\ ~Settled
  /\ aiTimer' = [deps |-> effectDeps(gameState), seat |-> effectTimer(gameState)]
  /\ sent' = NoneSent
  /\ UNCHANGED <<gameState, conns, connections, lastOp, steps, drawEndRun>>

\* The pending timer fires: its callback hands the updater to setGameState
TimerFires ==
  /\ Settled /\ aiTimer.seat # null /\ steps < MaxSteps
  /\ LET aiIdx == aiTimer.seat
     IN \E r \in aiPlayTurn(gameState.aiHands[aiIdx], gameState.board,
                            gameState.hasMeld[gameState.currentPlayerIndex]) :
          LET nextState == aiUpdater(gameState, aiIdx, r)
          IN /\ gameState' = nextState
             /\ sent' = IF gameState.playerRole = "host" THEN broadcastState(nextState) ELSE NoneSent
             /\ lastOp' = Op("AITurn", aiIdx, "applied",
                             IF r.madeMove THEN "move"
                             ELSE IF gameState.pool = <<>> THEN "pass" ELSE "draw")
             /\ drawEndRun' = IF r.madeMove THEN RunAfter(nextState) ELSE RunPlusOne
  /\ steps' = steps + 1
  /\ aiTimer' = [aiTimer EXCEPT !.seat = null]
  /\ UNCHANGED <<conns, connections>>

\* The instance once mounted: the effect has run on the initial state
InitTimer ==
  /\ gameState = getInitialGameState("single")
  /\ conns = <<>>
  /\ connections = NoneSent
  /\ sent = NoneSent
  /\ lastOp = Op("init", null, "none", "")
  /\ steps = 0
  /\ drawEndRun = null
  /\ aiTimer = [deps |-> effectDeps(gameState), seat |-> effectTimer(gameState)]

\* joinAsClient ("Generate Answer Code"), offered whatever the role and the
\* state of the game: the connection to the host is registered under index 0
\* and the role becomes client
joinAsClient ==
  /\ RosterOpen
  /\ conns' = Append(conns, NewConn(0))
  /\ connections' = [i \in DOMAIN connections \cup {0} |->
                       IF i = 0 THEN Len(conns) + 1 ELSE connections[i]]
  /\ gameState' = [gameState EXCEPT !.playerRole = "client", !.isMultiplayer = TRUE]
  /\ lastOp' = Op("joinAsClient", 0, "applied", "")
  /\ sent' = NoneSent
  /\ UNCHANGED <<steps, drawEndRun, aiTimer>>

NextTimer ==
  \/ RunEffect
  \/ TimerFires
  \/ Settled /\ handleStartGame
  \/ Settled /\ PlaySetClick
  \/ Settled /\ DrawClick
  \/ Settled /\ EndTurnClick
  \/ Settled /\ ClientMessage
  \/ Settled /\ initHostConnection
  \/ Settled /\ PcConnected
  \/ Settled /\ DcOpen
  \/ Settled /\ joinAsClient

SpecTimer == InitTimer /\ [][NextTimer]_vars

\* ------------------------------------------- the timer under fair firing
\* The single-player game as handleStartGame leaves it
dealtSolo(deck) ==
  [getInitialGameState("single") EXCEPT
     !.gameStarted = TRUE,
     !.pool = SubSeq(deck, 4 * INITIAL_HAND_SIZE + 1, Len(deck)),
     !.playerHand = dealtHand(deck, 0),
     !.aiHands = [i \in 1..3 |-> dealtHand(deck, i)]]

\* The state after the timer callback of the automated seat to move
autoTurn(state) ==
  LET cur == state.currentPlayerIndex
  IN aiUpdater(state, cur,
               CHOOSE r \in aiPlayTurn(state.aiHands[cur], state.board,
                                        state.hasMeld[cur]) : TRUE)

\* One turn of a game in which seat 0 draws at each of its turns
afterTurn(state) ==
  IF state.currentPlayerIndex = 0 THEN afterDraw(state) ELSE autoTurn(state)

RECURSIVE playUntil(_, _)
playUntil(state, left) ==
  IF state.winner # null \/ Len(state.pool) <= left THEN state
  ELSE playUntil(afterTurn(state), left)

\* The instance once mounted, or a single-player game played until at most
\* PoolLeft tiles are left in the pool. MaxFairSteps game steps are explored.
InitFair ==
  /\ \/ gameState = getInitialGameState("single")
     \/ \E deck \in createDeck, left \in 0..PoolLeft :
          gameState = playUntil(dealtSolo(deck), left)
  /\ conns = <<>>
  /\ connections = NoneSent
  /\ sent = NoneSent
  /\ lastOp = Op("init", null, "none", "")
  /\ steps = MaxSteps - MaxFairSteps
  /\ drawEndRun = null
  /\ aiTimer = [deps |-> effectDeps(gameState), seat |-> effectTimer(gameState)]

NextFair ==
  \/ RunEffect
  \/ TimerFires
  \/ Settled /\ handleStartGame
  \/ Settled /\ DrawClick
  \/ Settled /\ EndTurnClick

\* A timer is pending and nothing has cleared it: the condition under which
\* TimerFires can take a step (aiPlayTurn always returns a result)
TimerDue == Settled /\ aiTimer.seat # null /\ steps < MaxSteps

\* React runs an effect whose dependencies changed after the render:
\* WF_vars(RunEffect). setTimeout fires a pending timer after its delay unless
\* clearTimeout ran: weak fairness of TimerFires, written with TimerDue for
\* ENABLED <<TimerFires>>_vars.
SpecFair ==
  /\ InitFair /\ [][NextFair]_vars
  /\ WF_vars(RunEffect)
  /\ ([]<>~TimerDue \/ []<><<TimerFires>>_vars)

\* ---------------------------------------------------- connections fail
\* A report that hands the seat of the connection back to the automated player
onDisconnectedFreesSeat(c, field, value, reported) ==
  /\ conns' = [conns EXCEPT ![c][field] = value]
  /\ gameState' = [gameState EXCEPT
                     !.humanPlayers = SelectSeq(@, LAMBDA k : k # conns[c].index)]
  /\ lastOp' = Op(reported, conns[c].index, "applied", "")
  /\ sent' = NoneSent
  /\ UNCHANGED <<connections, steps, drawEndRun, aiTimer>>

\* conn.onConnectionStateChange(reported) of connection c of the host for a
\* state other than 'connected', reported while its field (pc or dc) takes
\* value: only the connection status display changes
onDisconnected(c, field, value, reported) ==
  /\ conns' = [conns EXCEPT ![c][field] = value]
  /\ lastOp' = Op(reported, conns[c].index, "applied", "")
  /\ sent' = NoneSent
  /\ UNCHANGED <<gameState, connections, steps, drawEndRun, aiTimer>>

\* Data channels and peer connections lost so far
FaultCount ==
  Cardinality({c \in 1..Len(conns) : conns[c].dc = "closed"})
  + Cardinality({c \in 1..Len(conns) : conns[c].pc \in {"disconnected", "failed"}})

\* dc.onclose, which reports 'disconnected'
HostDcClose ==
  \E c \in 1..Len(conns) :
    /\ conns[c].dc = "open" /\ FaultCount < MaxFaults
    /\ onDisconnected(c, "dc", "closed", "disconnected")

\* pc.onconnectionstatechange reporting 'disconnected' or 'failed', and
\* pc.oniceconnectionstatechange reporting 'failed'
HostPcDrop ==
  \E c \in 1..Len(conns) :
    \E state \in {"disconnected", "failed"} :
      /\ conns[c].pc \in {"new", "connected", "disconnected"} \ {state}
      /\ FaultCount < MaxFaults
      /\ onDisconnected(c, "pc", state, state)

\* Seats 1 and 2 are clients whose channels are open, seat 3 is automated, the
\* game has not started; the automated-turn effect has run on this state
InitFault ==
  /\ gameState = [getInitialGameState("single") EXCEPT
                    !.playerRole = "host", !.isMultiplayer = TRUE,
                    !.humanPlayers = <<0, 1, 2>>,
                    !.message = [text |-> "joined", player |-> 2]]
  /\ conns = [c \in 1..2 |-> [NewConn(c) EXCEPT !.answered = TRUE, !.dc = "open"]]
  /\ connections = [i \in {1, 2} |-> i]
  /\ sent = [i \in {1, 2} |-> clientView(gameState, i)]
  /\ lastOp = Op("RosterPush", 2, "applied", "")
  /\ steps = 0
  /\ drawEndRun = null
  /\ aiTimer = [deps |-> effectDeps(gameState), seat |-> effectTimer(gameState)]

NextFault ==
  \/ RunEffect
  \/ TimerFires
  \/ HostDcClose
  \/ HostPcDrop
  \/ Settled /\ handleStartGame
  \/ Settled /\ DrawClick
  \/ Settled /\ EndTurnClick
  \/ Settled /\ ClientMessage

SpecFault == InitFault /\ [][NextFault]_vars

\* ------------------------------------------------------------ properties
\* The fields of the canonical state the game rules speak of
Game(state) ==
  <<state.board, state.playerHand, state.aiHands, state.pool,
    state.currentPlayerIndex, state.hasMeld, state.winner>>

AllTiles(state) ==
  Flatten(state.board) \o state.playerHand \o Flatten(state.aiHands) \o state.pool

CommitOps == {"PlaySet", "AddToSet", "ACTION_MOVE", "AITurn"}
TurnOps == {"Draw", "EndTurn", "ACTION_DRAW", "ACTION_END_TURN"}

\* The step just taken is a commit by seat s that the host applied
CommittedBy(s) ==
  /\ lastOp'.seat = s /\ lastOp'.result = "applied"
  /\ lastOp'.op \in CommitOps
  /\ lastOp'.op = "AITurn" => lastOp'.note = "move"

\* C1: once the game has started, board, the four hands and the pool hold
\* exactly 106 tiles and no tile id occurs twice.
C1_Conservation ==
  gameState.gameStarted =>
    /\ Len(AllTiles(gameState)) = 106
    /\ Cardinality({t.id : t \in Range(AllTiles(gameState))}) = 106

\* C2: once winner is non-null, no later Draw, CommitSet or EndTurn (local,
\* automated or from any client) changes board, hands, pool,
\* currentPlayerIndex, hasMeld or winner.
C2_FinishedIsFrozen ==
  [][(gameState.winner # null /\ lastOp'.op \in CommitOps \cup TurnOps)
       => Game(gameState') = Game(gameState)]_vars

\* C3: an intent arriving on the connection of seat k while
\* currentPlayerIndex # k leaves the host state unchanged and sends no
\* UPDATE_STATE.
C3_StaleIntentDropped ==
  [][(lastOp'.op \in Intents /\ gameState.currentPlayerIndex # lastOp'.seat)
       => (gameState' = gameState /\ sent' = NoneSent)]_vars

C3_Witness ==
  /\ lastOp.op = "ACTION_DRAW" /\ lastOp.result = "dropped"
  /\ gameState.gameStarted /\ gameState.winner = null
  /\ gameState.currentPlayerIndex # lastOp.seat
  /\ CanSend(lastOp.seat)
  /\ gameState.pool # <<>>

\* The step from state to next is one legal CommitSet by seat k: one valid new
\* set (scoring 30 or more before the initial meld) or one valid extension by a
\* melded seat, made of tiles of the hand the host stores for k.
LegalCommit(state, next, k) ==
  LET hand == HandOf(state, k)
      handIds == {t.id : t \in Range(hand)}
      idsOf(set) == {t.id : t \in Range(set)}
      newSet == next.board[Len(next.board)]
      isNew ==
        /\ Len(next.board) = Len(state.board) + 1
        /\ SubSeq(next.board, 1, Len(state.board)) = state.board
        /\ idsOf(newSet) \subseteq handIds
        /\ newSet = sortTileSet(Pick(hand, idsOf(newSet)))
        /\ isValidSet(newSet)
        /\ (state.hasMeld[k] \/ calculateSetPoints(newSet) >= MeldThreshold)
        /\ HandOf(next, k) = Without(hand, idsOf(newSet))
      isExtension ==
        /\ state.hasMeld[k]
        /\ Len(next.board) = Len(state.board)
        /\ \E i \in 1..Len(state.board) :
             LET added == idsOf(next.board[i]) \ idsOf(state.board[i])
             IN /\ \A j \in 1..Len(state.board) : j # i => next.board[j] = state.board[j]
                /\ added # {} /\ added \subseteq handIds
                /\ next.board[i] = sortTileSet(state.board[i] \o Pick(hand, added))
                /\ isValidSet(next.board[i])
                /\ HandOf(next, k) = Without(hand, added)
  IN /\ state.gameStarted /\ state.winner = null
     /\ (isNew \/ isExtension)
     /\ next.hasMeld = [state.hasMeld EXCEPT ![k] = TRUE]

\* C4: an ACTION_MOVE from the current seat whose payload is not the result of
\* one legal CommitSet on the host's state is a no-op and sends no UPDATE_STATE.
C4_IllegalMoveIsNoOp ==
  [][(/\ lastOp'.op = "ACTION_MOVE"
      /\ gameState.currentPlayerIndex = lastOp'.seat
      /\ ~LegalCommit(gameState, gameState', lastOp'.seat))
       => (Game(gameState') = Game(gameState) /\ sent' = NoneSent)]_vars

\* C5: every set on the host's board is a valid run or group.
C5_BoardSetsValid ==
  \A i \in 1..Len(gameState.board) : isValidSet(gameState.board[i])

\* C6: hasMeld[s] never goes from true to false within a deal; it goes from
\* false to true only in a step that commits a new set by seat s scoring 30 or
\* more; a step by seat s changes hasMeld of no other seat.
C6_HasMeldMonotone ==
  [][lastOp'.op # "StartGame" =>
       \A s \in Seats :
         /\ gameState.hasMeld[s] => gameState'.hasMeld[s]
         /\ (~gameState.hasMeld[s] /\ gameState'.hasMeld[s]) =>
              /\ CommittedBy(s)
              /\ Len(gameState'.board) = Len(gameState.board) + 1
              /\ SubSeq(gameState'.board, 1, Len(gameState.board)) = gameState.board
              /\ isValidSet(gameState'.board[Len(gameState'.board)])
              /\ calculateSetPoints(gameState'.board[Len(gameState'.board)]) >= MeldThreshold
         /\ gameState'.hasMeld[s] # gameState.hasMeld[s] => lastOp'.seat = s]_vars

\* C7: a CommitSet that targets an existing board set is rejected with no
\* change to the host state whenever hasMeld of the acting seat is false, for
\* the host seat acting locally and for a client seat acting through ACTION_MOVE.
C7_ExtensionNeedsMeld ==
  [][(/\ \/ lastOp'.op = "AddToSet" /\ isMyTurn
         \/ /\ lastOp'.op = "ACTION_MOVE" /\ lastOp'.note = "extend"
            /\ gameState.currentPlayerIndex = lastOp'.seat
      /\ ~gameState.hasMeld[lastOp'.seat])
       => Game(gameState') = Game(gameState)]_vars

\* C8: PLAY SET by a seat with hasMeld false: a set scoring under 30 leaves
\* board, hand and hasMeld unchanged; a valid set scoring 30 or more is
\* appended to the board as exactly one set, leaves the hand exactly the
\* selected tiles and makes hasMeld of the seat true.
C8_InitialMeldGate ==
  [][lastOp'.op = "PlaySet" =>
       \A sel \in Selections(gameState.playerHand, MinSetSize) :
         LET my == gameState.myPlayerIndex
             tiles == Pick(gameState.playerHand, sel)
         IN (PlaySet(sel) /\ ~gameState.hasMeld[my]) =>
              /\ calculateSetPoints(tiles) < MeldThreshold =>
                   /\ gameState'.board = gameState.board
                   /\ gameState'.playerHand = gameState.playerHand
                   /\ gameState'.hasMeld = gameState.hasMeld
              /\ (isValidSet(tiles) /\ calculateSetPoints(tiles) >= MeldThreshold) =>
                   /\ Len(gameState'.board) = Len(gameState.board) + 1
                   /\ SubSeq(gameState'.board, 1, Len(gameState.board)) = gameState.board
                   /\ Range(gameState'.board[Len(gameState'.board)]) = Range(tiles)
                   /\ Len(gameState'.playerHand) = Len(gameState.playerHand) - Len(tiles)
                   /\ Range(gameState'.playerHand) = Range(gameState.playerHand) \ Range(tiles)
                   /\ gameState'.hasMeld[my]]_vars

C8_Witness ==
  /\ lastOp = Op("PlaySet", 0, "rejected", "meld")
  /\ ~gameState.hasMeld[0]
  /\ \E sel \in Selections(gameState.playerHand, MinSetSize) :
       /\ isValidSet(Pick(gameState.playerHand, sel))
       /\ calculateSetPoints(Pick(gameState.playerHand, sel)) < MeldThreshold

\* C9: currentPlayerIndex changes only to (currentPlayerIndex + 1) mod 4, and
\* after N applied Draw/EndTurn steps in a row from seat 0 with no winner it
\* equals N mod 4.
C9_TurnOrder ==
  /\ [][gameState'.currentPlayerIndex # gameState.currentPlayerIndex =>
          gameState'.currentPlayerIndex = (gameState.currentPlayerIndex + 1) % 4]_vars
  /\ []((drawEndRun # null /\ gameState.winner = null) =>
          gameState.currentPlayerIndex = drawEndRun % 4)

C9_Witness ==
  /\ drawEndRun = 4
  /\ gameState.winner = null
  /\ gameState.currentPlayerIndex = 0

\* C10: winner changes only from null to s, in a step where a commit by seat s
\* leaves seat s's hand empty, and every such commit with no winner yet sets
\* winner to s; currentPlayerIndex does not advance in that step.
C10_WinnerOnlyByEmptyingHand ==
  [][/\ gameState'.winner # gameState.winner =>
          /\ gameState.winner = null
          /\ gameState'.winner \in Seats
          /\ CommittedBy(gameState'.winner)
          /\ HandOf(gameState', gameState'.winner) = <<>>
          /\ gameState'.currentPlayerIndex = gameState.currentPlayerIndex
     /\ \A s \in Seats :
          (gameState.winner = null /\ CommittedBy(s) /\ HandOf(gameState', s) = <<>>) =>
             /\ gameState'.winner = s
             /\ gameState'.currentPlayerIndex = gameState.currentPlayerIndex]_vars

\* C11: START GAME, performed by a host or single-player instance only, leaves
\* 14 tiles in each of the four hands, 50 in the pool, an empty board,
\* currentPlayerIndex 0, hasMeld all false and winner null; a Draw by seat 0
\* right after leaves the pool at 49 and seat 0's hand at 15.
C11_FreshDeal ==
  [][/\ lastOp'.op = "StartGame" =>
          /\ gameState.playerRole \in {"host", "single"}
          /\ \A s \in Seats : Len(HandOf(gameState', s)) = 14
          /\ Len(gameState'.pool) = 50
          /\ gameState'.board = <<>>
          /\ gameState'.currentPlayerIndex = 0
          /\ \A s \in Seats : ~gameState'.hasMeld[s]
          /\ gameState'.winner = null
     /\ (lastOp.op = "StartGame" /\ lastOp'.op = "Draw" /\ lastOp'.seat = 0) =>
          /\ Len(gameState'.pool) = 49
          /\ Len(gameState'.playerHand) = 15]_vars

C11_Witness ==
  /\ lastOp = Op("Draw", 0, "applied", "")
  /\ steps = 1
  /\ Len(gameState.pool) = 49 /\ Len(gameState.playerHand) = 15
  /\ \A s \in 1..3 : Len(HandOf(gameState, s)) = 14

\* C13: the view pushed to client seat k has playerHand equal to the hand the
\* host stores for k, an other-hands list made of the host's own hand followed
\* by the hands of the seats other than k in seat order, myPlayerIndex = k and
\* role client; the host's canonical state is the state that was projected.
C13_ViewOfSeat ==
  \A k \in DOMAIN sent :
    LET others == SelectSeq(<<1, 2, 3>>, LAMBDA j : j # k)
    IN /\ k \in 1..3
       /\ sent[k].playerHand = HandOf(gameState, k)
       /\ sent[k].aiHands =
            <<gameState.playerHand, HandOf(gameState, others[1]), HandOf(gameState, others[2])>>
       /\ sent[k].myPlayerIndex = k
       /\ sent[k].playerRole = "client"
       /\ Game([sent[k] EXCEPT !.playerHand = gameState.playerHand,
                               !.aiHands = gameState.aiHands]) = Game(gameState)
       /\ gameState.playerRole = "host" /\ gameState.myPlayerIndex = 0

C13_Witness ==
  /\ DOMAIN sent = {1, 2}
  /\ gameState.gameStarted
  /\ sent[2].playerHand = HandNone
  /\ sent[2].aiHands[2] = gameState.aiHands[1]
  /\ gameState.aiHands[1] # HandRuns

\* A canonical state that differs from state only in tile contents hidden from
\* every client seat: the host's first hand tile and the pool's last tile are
\* exchanged.
SwapHidden(state) ==
  [state EXCEPT !.playerHand[1] = state.pool[Len(state.pool)],
                !.pool[Len(state.pool)] = state.playerHand[1]]

\* C14: the view pushed to client seat k conceals the other seats: two
\* canonical states that differ only in the tile contents of hands other than
\* seat k's and of the pool project to the same view for seat k.
C14_ViewConcealsOthers ==
  \A k \in DOMAIN sent :
    (gameState.gameStarted /\ gameState.pool # <<>> /\ gameState.playerHand # <<>>) =>
       clientView(SwapHidden(gameState), k) = clientView(gameState, k)

\* C15: the turn-status message in the view pushed to client seat k names the
\* turn as the viewer's own exactly when currentPlayerIndex = k.
C15_MessageRelativeToViewer ==
  \A k \in DOMAIN sent :
    sent[k].winner = null =>
      (sent[k].message.text = "Your Turn" <=> sent[k].currentPlayerIndex = k)

\* C20: an automated turn for seat s runs the automated player once: if it
\* returns a move, seat s's hand and the board are replaced by its result and
\* then either winner = s (hand empty, turn not advanced) or currentPlayerIndex
\* advances by one; if it returns no move and the pool is non-empty, exactly
\* one tile moves from the pool's tail to seat s's hand and currentPlayerIndex
\* advances by one.
C20_AutomatedTurn ==
  [][lastOp'.op = "AITurn" =>
       LET s == gameState.currentPlayerIndex
           hand == gameState.aiHands[s]
           pool == gameState.pool
           otherHandsKept ==
             /\ gameState'.playerHand = gameState.playerHand
             /\ \A t \in 1..3 : t # s => gameState'.aiHands[t] = gameState.aiHands[t]
       IN /\ s \in 1..3 /\ lastOp'.seat = s /\ otherHandsKept
          /\ \E r \in aiPlayTurn(hand, gameState.board, gameState.hasMeld[s]) :
               IF r.madeMove
               THEN /\ gameState'.board = r.newBoard
                    /\ gameState'.aiHands[s] = r.newHand
                    /\ gameState'.pool = pool
                    /\ IF r.newHand = <<>>
                       THEN /\ gameState'.winner = s
                            /\ gameState'.currentPlayerIndex = s
                       ELSE /\ gameState'.winner = null
                            /\ gameState'.currentPlayerIndex = (s + 1) % 4
               ELSE pool # <<>> =>
                    /\ gameState'.pool = SubSeq(pool, 1, Len(pool) - 1)
                    /\ gameState'.aiHands[s] = Append(hand, pool[Len(pool)])
                    /\ gameState'.board = gameState.board
                    /\ gameState'.winner = null
                    /\ gameState'.currentPlayerIndex = (s + 1) % 4]_vars

C20_Witness ==
  /\ lastOp = Op("AITurn", 1, "applied", "move")
  /\ gameState.winner = 1
  /\ gameState.aiHands[1] = <<>>
  /\ gameState.currentPlayerIndex = 1

Joined == {c \in 1..Len(conns) : conns[c].pc = "connected" \/ conns[c].dc = "open"}

\* Connection c, whose data channel is open, is handed the view of its seat
Receives(c, out) ==
  /\ conns[c].index \in DOMAIN out
  /\ conns[c].index \in DOMAIN connections
  /\ connections[conns[c].index] = c

\* C16: in host role, every step that changes the canonical state sends in
\* that step the full state to every client connection, and the push that
\* follows a roster change reaches every client connection as well.
C16_EveryChangePushed ==
  [][(/\ gameState.playerRole = "host"
      /\ \/ Game(gameState') # Game(gameState)
         \/ lastOp'.op = "RosterPush")
       => \A c \in 1..Len(conns) :
            conns[c].dc = "open" =>
              /\ Receives(c, sent')
              /\ lastOp'.op # "RosterPush" =>
                   sent'[conns[c].index] = clientView(gameState', conns[c].index)]_vars

\* C18: the peers that joined hold the client seats 1, 2, 3 in join order, each
\* seat held by one peer and each peer counted once in humanPlayers; an
\* invitation is refused as "full" only when three peers have joined.
C18_SeatsInJoinOrder ==
  /\ \A c \in Joined : conns[c].index \in 1..3
  /\ \A c, d \in Joined : c # d => conns[c].index # conns[d].index
  /\ gameState.humanPlayers = [i \in 1..(1 + Cardinality(Joined)) |-> i - 1]
  /\ lastOp = Op("initHostConnection", Len(gameState.humanPlayers), "rejected", "full")
       => Cardinality(Joined) = 3

\* The click handlers by which a seat submits an action
ClickOps == {"PlaySet", "AddToSet", "Draw", "EndTurn"}

\* C17: a click on a client only sends the intent: the client's board, hands,
\* pool, currentPlayerIndex, hasMeld and winner stay those of the last
\* UPDATE_STATE payload it received.
C17_ClientAppliesNothingLocally ==
  [][(gameState.playerRole = "client" /\ lastOp'.op \in ClickOps)
       => Game(gameState') = Game(gameState)]_vars

\* C19: after a client submitted Draw or EndTurn and the intent did not reach
\* the host, the client can submit it again at once: it is still its turn in
\* its own state, no UPDATE_STATE being needed first.
C19_LostIntentCanBeRetried ==
  (/\ gameState.playerRole = "client"
   /\ lastOp.op \in {"Draw", "EndTurn"} /\ lastOp.result = "applied"
   /\ sent = NoneSent)
    => isMyTurn

\* The hand of every seat but seat is the same in a and b
OtherHandsSame(a, b, seat) ==
  \A k \in Seats : k # seat => HandOf(a, k) = HandOf(b, k)

SetOps == {"PlaySet", "AddToSet", "ACTION_MOVE"}

\* C22: a set committed by a human seat that keeps tiles in hand leaves
\* currentPlayerIndex and the pool as they were, on the host and for a
\* client's ACTION_MOVE; the turn of a human seat passes on only by a Draw or
\* an EndTurn of that seat.
C22_CommitKeepsTurn ==
  [][/\ (/\ lastOp'.op \in SetOps /\ lastOp'.result = "applied"
         /\ HandOf(gameState', lastOp'.seat) # <<>>)
          => /\ gameState'.currentPlayerIndex = gameState.currentPlayerIndex
             /\ gameState'.pool = gameState.pool
     /\ (/\ gameState.gameStarted
         /\ gameState.currentPlayerIndex \in Range(gameState.humanPlayers)
         /\ gameState'.currentPlayerIndex # gameState.currentPlayerIndex)
          => /\ lastOp'.op \in TurnOps
             /\ lastOp'.seat = gameState.currentPlayerIndex]_vars

\* Client seat 1 has laid down a new set, keeps tiles and is still to move
C22_Witness ==
  /\ lastOp = Op("ACTION_MOVE", 1, "applied", "new")
  /\ gameState.currentPlayerIndex = 1
  /\ gameState.aiHands[1] # <<>>
  /\ gameState.board # <<>>

\* The steps by which a human seat draws
DrawOps == {"Draw", "ACTION_DRAW"}

\* C23: a legal Draw by seat s (s is to move, the game is in progress, the pool
\* is not empty) moves the last tile of the pool, and that tile only, to the
\* hand of s and passes the turn to the next seat; board, hasMeld, winner and
\* every other hand stay as they were.
C23_DrawFrame ==
  [][(/\ lastOp'.op \in DrawOps /\ lastOp'.result = "applied"
      /\ gameState.gameStarted /\ gameState.winner = null
      /\ gameState.currentPlayerIndex = lastOp'.seat
      /\ gameState.pool # <<>>)
       => LET s == lastOp'.seat
              n == Len(gameState.pool)
          IN /\ gameState'.pool = SubSeq(gameState.pool, 1, n - 1)
             /\ HandOf(gameState', s) = Append(HandOf(gameState, s), gameState.pool[n])
             /\ gameState'.currentPlayerIndex = (s + 1) % NumSeats
             /\ gameState'.board = gameState.board
             /\ gameState'.hasMeld = gameState.hasMeld
             /\ gameState'.winner = gameState.winner
             /\ OtherHandsSame(gameState, gameState', s)]_vars

\* Seat 0 and then client seat 1 have drawn: seat 1 holds one tile more than
\* it was dealt and seat 2 is to move
C23_Witness ==
  /\ lastOp = Op("ACTION_DRAW", 1, "applied", "")
  /\ Len(gameState.aiHands[1]) = INITIAL_HAND_SIZE + 1
  /\ Len(gameState.playerHand) = INITIAL_HAND_SIZE + 1
  /\ gameState.currentPlayerIndex = 2

\* The steps by which a human seat ends its turn
EndOps == {"EndTurn", "ACTION_END_TURN"}

\* C24: an EndTurn by the seat to move, on the host or by ACTION_END_TURN,
\* passes the turn to the next seat and leaves board, hands, pool, hasMeld and
\* winner as they were.
C24_EndTurnFrame ==
  [][(/\ lastOp'.op \in EndOps /\ lastOp'.result = "applied"
      /\ gameState.currentPlayerIndex = lastOp'.seat)
       => /\ gameState'.currentPlayerIndex = (lastOp'.seat + 1) % NumSeats
          /\ gameState'.board = gameState.board
          /\ gameState'.playerHand = gameState.playerHand
          /\ gameState'.aiHands = gameState.aiHands
          /\ gameState'.pool = gameState.pool
          /\ gameState'.hasMeld = gameState.hasMeld
          /\ gameState'.winner = gameState.winner]_vars

\* Client seat 1 has laid down its initial meld and then ended its turn
C24_Witness ==
  /\ lastOp = Op("ACTION_END_TURN", 1, "applied", "")
  /\ gameState.hasMeld[1]
  /\ gameState.board # <<>>
  /\ gameState.currentPlayerIndex = 2

\* The reports of a connection that is lost
FaultReports == {"disconnected", "failed"}

\* The connection registered for seat k reported that it is lost
Lost(k) ==
  /\ k \in DOMAIN connections
  /\ \/ conns[connections[k]].dc = "closed"
     \/ conns[connections[k]].pc \in FaultReports

\* C25: a report of 'disconnected' or 'failed' leaves the host's board, hands,
\* pool, currentPlayerIndex, hasMeld, winner and humanPlayers as they were; no
\* step takes a seat out of humanPlayers, and the automated player never plays
\* a seat of humanPlayers, lost or not.
C25_FaultKeepsState ==
  [][/\ lastOp'.op \in FaultReports
          => /\ Game(gameState') = Game(gameState)
             /\ gameState'.humanPlayers = gameState.humanPlayers
     /\ Range(gameState.humanPlayers) \subseteq Range(gameState'.humanPlayers)
     /\ (lastOp'.op = "AITurn" /\ gameState' # gameState)
          => lastOp'.seat \notin Range(gameState.humanPlayers)]_vars

\* The connection of client seat 1 is lost in a started game, seat 1 is to
\* move, and the effect has run without setting a timer for it
C25_Witness ==
  /\ gameState.gameStarted /\ gameState.winner = null
  /\ gameState.currentPlayerIndex = 1
  /\ Lost(1)
  /\ 1 \in Range(gameState.humanPlayers)
  /\ Settled /\ aiTimer.seat = null

\* C26: every UPDATE_STATE the host hands to a channel, the delayed
\* re-broadcast after a join included, is the view of the state the host holds
\* when it sends, so that no client is sent a view older than an earlier one.
C26_PushIsCurrentState ==
  [][gameState'.playerRole = "host" =>
       \A k \in DOMAIN sent' : sent'[k] = clientView(gameState', k)]_vars

\* The seats whose stored hand differs between a and b
HandsChanged(a, b) == {k \in Seats : HandOf(a, k) # HandOf(b, k)}

\* The seats whose hasMeld differs between a and b
MeldsChanged(a, b) == {k \in Seats : a.hasMeld[k] # b.hasMeld[k]}

\* C27: a message is attributed to the seat its connection was created for,
\* whatever fromIndex it carries: it changes no hand and no hasMeld but that
\* seat's, and changes the game only while that seat is to move.
C27_AttributedToConnection ==
  [][lastOp'.op \in Intents =>
       \E c \in 1..Len(conns) :
         LET k == conns[c].index
         IN /\ conns[c].dc = "open"
            /\ lastOp'.seat = k
            /\ HandsChanged(gameState, gameState') \subseteq {k}
            /\ MeldsChanged(gameState, gameState') \subseteq {k}
            /\ Game(gameState') # Game(gameState) => gameState.currentPlayerIndex = k]_vars

\* A move that names seat 2 as its sender arrived on the connection of seat 1
\* while seat 1 was to move, and was applied to seat 1
C27_Witness ==
  /\ lastOp.op = "ACTION_MOVE" /\ lastOp.result = "applied" /\ lastOp.note = "new"
  /\ lastOp.seat = 1 /\ lastOp.from = 2
  /\ gameState.hasMeld[1] /\ ~gameState.hasMeld[2]
  /\ Len(gameState.aiHands[2]) = INITIAL_HAND_SIZE

AutomatedHere(s) ==
  /\ s # 0
  /\ gameState.playerRole \in {"single", "host"}
  /\ s \notin Range(gameState.humanPlayers)

\* C29: when the game is in progress and the seat to move is automated, fair
\* firing of the timer leads to a state with a winner or another seat to move;
\* with an empty pool and no move for the seat, the timer callback advances the
\* turn and leaves the pool, the hands and the board as they were.
C29_AutomatedTurnEnds ==
  /\ \A s \in 1..3 :
       (/\ gameState.gameStarted /\ gameState.winner = null
        /\ gameState.currentPlayerIndex = s /\ AutomatedHere(s)
        /\ steps < MaxSteps)
         ~> (gameState.winner # null \/ gameState.currentPlayerIndex # s)
  /\ [][(/\ lastOp'.op = "AITurn" /\ lastOp'.note = "pass"
         /\ gameState' # gameState)
        => /\ gameState.pool = <<>> /\ gameState'.pool = <<>>
           /\ gameState'.currentPlayerIndex = nextSeat(gameState.currentPlayerIndex)
           /\ gameState'.winner = null
           /\ gameState'.aiHands = gameState.aiHands
           /\ gameState'.playerHand = gameState.playerHand
           /\ gameState'.board = gameState.board]_vars

\* An automated seat without a move has passed on an empty pool
C29_Witness ==
  /\ lastOp.op = "AITurn" /\ lastOp.note = "pass"
  /\ gameState.pool = <<>> /\ gameState.winner = null
  /\ gameState.currentPlayerIndex = nextSeat(lastOp.seat)

====
